---- MODULE Spec2Model ----
(***************************************************************************)
(* Resume Ranking System: the /api/extract-criteria and /api/rank-resumes  *)
(* handlers of api/routes.py with the helpers, the document extractor and  *)
(* the AI wrappers they call.  One request is modelled from its arrival to *)
(* its response.  Strings are sequences of tokens; a Python value is a     *)
(* record carrying its kind.                                               *)
(***************************************************************************)
EXTENDS Integers, Sequences, FiniteSets, TLC

\* Largest number of resume files of an ordinary batch.
MaxN == 2

\* app.py: "if len(resumes) > 50".
MaxResumes == 50

\* core/file_processor.py: 5 * 1024 * 1024 bytes.
SizeLimit == 5 * 1024 * 1024

PDF == "application/pdf"

DOCX == "application/vnd.openxmlformats-officedocument.wordprocessingml.document"

CandidateName == "Candidate Name"

TotalScore == "Total Score"

Range(s) == {s[i] : i \in DOMAIN s}

(***************************************************************************)
(* Python values.                                                          *)
(***************************************************************************)
Num(k) == [t |-> "num", n |-> k, s |-> ""]

Str(x) == [t |-> "str", n |-> 0, s |-> x]

NaN == [t |-> "nan", n |-> 0, s |-> ""]

\* A dict is the sequence of its <<key, value>> items, in insertion order.
Dict(items) == [t |-> "dict", items |-> items]

List(items) == [t |-> "list", items |-> items]

Keys(d) == {d.items[i][1] : i \in DOMAIN d.items}

Get(d, k) == LET i == CHOOSE j \in DOMAIN d.items : d.items[j][1] = k IN d.items[i][2]

\* What a coroutine or a call ends with: a returned value or a raised exception.
Return(v) == [kind |-> "return", status_code |-> 0, detail |-> "", value |-> v]

Raise(cls, status, msg) == [kind |-> cls, status_code |-> status, detail |-> msg, value |-> List(<<>>)]

HTTPException(status, msg) == Raise("HTTPException", status, msg)

NoOutcome == [kind |-> "none", status_code |-> 0, detail |-> "", value |-> List(<<>>)]

\* A str, or one of the mappings the components return:
\* {"error", "status_code"}, {"response", "status_code"}, {"requirements", "code"}.
PyObj(kind, keys, words, status, msg, payload) ==
    [kind |-> kind, keys |-> keys, words |-> words, status_code |-> status,
     error |-> msg, payload |-> payload]

ErrorDict(status, msg) == PyObj("dict", {"error", "status_code"}, <<>>, status, msg, <<>>)

Text(words) == PyObj("str", {}, words, 0, "", <<>>)

NoText == PyObj("none", {}, <<>>, 0, "", <<>>)

\* Python's "error" in x: a substring test on a str, a key test on a dict.
ErrorIn(x) == IF x.kind = "str" THEN "error" \in Range(x.words) ELSE "error" \in x.keys

(***************************************************************************)
(* str.strip, str.lstrip(chars), str.rstrip(chars), str.split, on tokens.  *)
(***************************************************************************)
Whitespace == {"NL", "SP"}

RECURSIVE LStrip(_, _)
LStrip(s, chars) ==
    IF s # <<>> /\ Head(s) \in chars THEN LStrip(Tail(s), chars) ELSE s

RECURSIVE RStrip(_, _)
RStrip(s, chars) ==
    IF s # <<>> /\ s[Len(s)] \in chars THEN RStrip(SubSeq(s, 1, Len(s) - 1), chars) ELSE s

StripNoop(s) == s

Strip(s) == RStrip(LStrip(s, Whitespace), Whitespace)

RECURSIVE Split(_, _)
Split(s, sep) ==
    IF \E i \in DOMAIN s : s[i] = sep
    THEN LET i == CHOOSE j \in DOMAIN s : s[j] = sep /\ \A k \in 1..(j - 1) : s[k] # sep
         IN  <<SubSeq(s, 1, i - 1)>> \o Split(SubSeq(s, i + 1, Len(s)), sep)
    ELSE <<s>>

(***************************************************************************)
(* core/file_processor.py                                                  *)
(***************************************************************************)
\* An uploaded file: its length and its declared content type.  What the
\* parsing library finds in its bytes (pages or paragraphs, or a fault) is
\* its content, known once the file is read.
ContentTypes == {PDF, DOCX, "text/plain"}

Sizes == {SizeLimit, SizeLimit + 1}

UploadFiles == [size : Sizes, content_type : ContentTypes]

Contents ==
    { [kind |-> "ok", parts |-> <<>>],
      [kind |-> "ok", parts |-> << <<"python">> >>],
      [kind |-> "ok", parts |-> << <<"error">>, <<"python">> >>],
      [kind |-> "corrupt", parts |-> <<>>],
      [kind |-> "fault", parts |-> <<>>] }

\* The files of a batch above MaxN are all this one, held in memory.
PlainUpload == [size |-> SizeLimit, content_type |-> "text/plain"]

NoUpload == [size |-> 0, content_type |-> ""]

NoContent == [kind |-> "corrupt", parts |-> <<>>]

RECURSIVE Join(_, _)
Join(parts, sep) ==
    IF parts = <<>> THEN <<>>
    ELSE IF Len(parts) = 1 THEN parts[1]
    ELSE parts[1] \o <<sep>> \o Join(Tail(parts), sep)

\* BaseDoc.validate_size: TRUE when it raises ValueError.
validate_size(size) == size > SizeLimit

PdfDoc_extract_text(content) ==
    IF content.kind = "corrupt"
    THEN ErrorDict(422, "Invalid PDF structure - unable to read file")
    ELSE IF content.kind = "fault"
    THEN ErrorDict(422, "PDF processing error")
    ELSE IF content.parts = <<>>
    THEN ErrorDict(422, "PDF contains no readable text")
    ELSE Text(Join(content.parts, "NL"))

DocxDoc_extract_text(content) ==
    IF content.kind = "corrupt"
    THEN ErrorDict(422, "Invalid DOCX file - corrupted or empty")
    ELSE IF content.kind = "fault"
    THEN ErrorDict(422, "DOCX processing error")
    ELSE IF content.parts = <<>>
    THEN ErrorDict(422, "DOCX contains no readable text")
    ELSE Text(Join(content.parts, "SP"))

\* DocProcessor.process: what it ends with (the str or mapping it returns, or
\* the exception it raises) and whether PyPDF2 or python-docx was called.
DocProcessor_process(file, content) ==
    IF validate_size(file.size)
    THEN [outcome |-> Raise("ValueError", 0, "File size exceeds 5MB limit"),
          result |-> NoText, parsed |-> FALSE]
    ELSE IF file.content_type = PDF
    THEN [outcome |-> Return(List(<<>>)), result |-> PdfDoc_extract_text(content),
          parsed |-> TRUE]
    ELSE IF file.content_type = DOCX
    THEN [outcome |-> Return(List(<<>>)), result |-> DocxDoc_extract_text(content),
          parsed |-> TRUE]
    ELSE [outcome |-> Return(List(<<>>)),
          result |-> ErrorDict(422, "Unsupported file type. Upload PDF or DOCX."),
          parsed |-> FALSE]

(***************************************************************************)
(* The generative backend.  A call either raises or returns text; the text *)
(* is a sequence of tokens, a whole JSON document being one token.         *)
(***************************************************************************)
R1 == "5+ years of Python experience"

R2 == "Bachelor's degree in Computer Science"

Reply(text) == [ok |-> TRUE, text |-> text]

CallFails == [ok |-> FALSE, text |-> <<>>]

NoReply == [ok |-> FALSE, text |-> <<"unset">>]

CriteriaReplies ==
    { CallFails,
      Reply(<<"INVALID_INPUT">>),
      Reply(<<"NL", "INVALID_INPUT", "SP">>),
      Reply(<<"QUOTE", "INVALID_INPUT", "QUOTE">>),
      Reply(<<R1, "NL", R2>>),
      Reply(<<R1, "NL", "NL", R2, "NL">>) }

ScorerReplies ==
    { CallFails,
      Reply(<<"NOT_VALID">>),
      Reply(<<"REC_FULL">>),
      Reply(<<"FENCE", "json", "NL", "REC_PART", "NL", "FENCE">>),
      Reply(<<"REC_ZERO">>),
      Reply(<<"LIST">>),
      Reply(<<"Sorry", "SP", "REC_FULL">>) }

ShortenerReplies ==
    { CallFails,
      Reply(<<"MAP_SHORT">>),
      Reply(<<"FENCE", "json", "NL", "MAP_SAME", "NL", "FENCE">>),
      Reply(<<"MAP_NAME">>),
      Reply(<<"MAP_STEAL">>),
      Reply(<<"LIST">>),
      Reply(<<"Here", "SP", "MAP_SHORT">>) }

\* The JSON documents the backend is seen to send.
JsonDocument(token) ==
    CASE token = "REC_FULL" -> Dict(<< <<CandidateName, Str("Ada")>>, <<R1, Num(3)>>, <<R2, Num(5)>> >>)
      [] token = "REC_PART" -> Dict(<< <<CandidateName, Str("Bob")>>, <<R1, Num(4)>> >>)
      [] token = "REC_ZERO" -> Dict(<< <<CandidateName, Str("Cy")>>, <<R2, Num(2)>>, <<R1, Num(0)>> >>)
      [] token = "MAP_SHORT" -> Dict(<< <<CandidateName, Str(CandidateName)>>, <<R1, Str("Python")>>, <<R2, Str("Degree")>> >>)
      [] token = "MAP_SAME" -> Dict(<< <<R1, Str("Skill")>>, <<R2, Str("Skill")>> >>)
      [] token = "MAP_NAME" -> Dict(<< <<CandidateName, Str("Name")>>, <<R1, Str("Python")>>, <<R2, Str("Degree")>> >>)
      [] token = "MAP_STEAL" -> Dict(<< <<R1, Str("Python")>>, <<R2, Str(CandidateName)>> >>)
      [] OTHER -> List(<< Num(3), Num(5) >>)

JsonTokens == {"REC_FULL", "REC_PART", "REC_ZERO", "MAP_SHORT", "MAP_SAME", "MAP_NAME", "MAP_STEAL", "LIST"}

\* json.loads: white space around the one document is skipped.
json_loads(text) ==
    LET s == Strip(text)
    IN  IF Len(s) = 1 /\ s[1] \in JsonTokens
        THEN Return(JsonDocument(s[1]))
        ELSE Raise("JSONDecodeError", 0, "Expecting value")

\* text.lstrip(fence + "json").rstrip(fence), the fence being three backquotes.
Unfence(text) == RStrip(LStrip(text, {"FENCE", "json"}), {"FENCE"})

(***************************************************************************)
(* core/aimodels.py                                                        *)
(***************************************************************************)
models_extract_criteria(reply) ==
    IF ~reply.ok
    THEN ErrorDict(500, "Extraction failed")
    ELSE IF Strip(reply.text) = <<"INVALID_INPUT">>
    THEN ErrorDict(400, "Not a valid Job Description")
    ELSE PyObj("dict", {"requirements", "code"}, <<>>, 200, "", Split(Strip(reply.text), "NL"))

\* models.rank_resumes: the mapping it returns, or the exception of the call.
models_rank_resumes(reply) ==
    IF ~reply.ok
    THEN [outcome |-> Raise("Exception", 0, "backend call failed"), result |-> NoText]
    ELSE IF "NOT_VALID" \in Range(Strip(reply.text))
    THEN [outcome |-> Return(List(<<>>)),
          result |-> ErrorDict(400, "Not a valid Resume or Job Requirements")]
    ELSE [outcome |-> Return(List(<<>>)),
          result |-> PyObj("dict", {"response", "status_code"}, <<>>, 200, "", Unfence(reply.text))]

models_shorten_requirements(reply) ==
    IF ~reply.ok
    THEN Raise("Exception", 0, "backend call failed")
    ELSE json_loads(Unfence(reply.text))

(***************************************************************************)
(* api/helpers.py                                                          *)
(***************************************************************************)
process_resume_extract_unchecked(file, content) ==
    LET p == DocProcessor_process(file, content)
    IN  IF p.outcome.kind # "return"
        THEN [pc |-> "done", text |-> NoText, parsed |-> p.parsed, outcome |-> p.outcome]
        ELSE [pc |-> "scoring", text |-> p.result, parsed |-> p.parsed, outcome |-> NoOutcome]

\* process_resume from the return of file.read() up to the backend call:
\* where the coroutine stands next, and what it ended with if it ended.
process_resume_extract(file, content) ==
    LET p == DocProcessor_process(file, content)
    IN  IF p.outcome.kind # "return"
        THEN [pc |-> "done", text |-> NoText, parsed |-> p.parsed, outcome |-> p.outcome]
        ELSE IF ErrorIn(p.result)
        THEN [pc |-> "done", text |-> p.result, parsed |-> p.parsed,
              outcome |-> IF p.result.kind = "str"
                          THEN Raise("TypeError", 0, "string indices must be integers")
                          ELSE HTTPException(p.result.status_code, p.result.error)]
        ELSE [pc |-> "scoring", text |-> p.result, parsed |-> p.parsed, outcome |-> NoOutcome]

\* process_resume from the backend call on.
process_resume_score(reply) ==
    LET r == models_rank_resumes(reply)
    IN  IF r.outcome.kind # "return"
        THEN r.outcome
        ELSE IF ErrorIn(r.result)
        THEN HTTPException(r.result.status_code, r.result.error)
        ELSE json_loads(r.result.payload)

IsRecord(res) == res.kind = "return" /\ res.value.t = "dict"

RECURSIVE KeySeq(_)
KeySeq(results) ==
    IF results = <<>> THEN <<>>
    ELSE [i \in DOMAIN Head(results).value.items |-> Head(results).value.items[i][1]]
         \o KeySeq(Tail(results))

RECURSIVE Distinct(_)
Distinct(s) ==
    IF s = <<>> THEN <<>>
    ELSE LET d == Distinct(SubSeq(s, 1, Len(s) - 1))
         IN  IF s[Len(s)] \in Range(d) THEN d ELSE Append(d, s[Len(s)])

\* pd.DataFrame(list of dicts): one column per key, in order of appearance,
\* and NaN where a record has no such key.
DataFrame_columns(results) == Distinct(KeySeq(results))

DataFrame_cell_zero(record, key) == IF key \in Keys(record) THEN Get(record, key) ELSE Num(0)

DataFrame_cell(record, key) == IF key \in Keys(record) THEN Get(record, key) ELSE NaN

\* df.rename(columns=colmap): a column the mapping does not name keeps its name.
rename(columns, colmap) ==
    [j \in DOMAIN columns |->
        IF columns[j] \in Keys(colmap) THEN Get(colmap, columns[j]).s ELSE columns[j]]

RECURSIVE SumSkipNa(_, _, _)
SumSkipNa(cells, labels, j) ==
    IF j = 0 THEN 0
    ELSE SumSkipNa(cells, labels, j - 1)
         + (IF labels[j] # CandidateName /\ cells[j].t = "num" THEN cells[j].n ELSE 0)

\* df.drop('Candidate Name', axis=1).sum(axis=1), for one row.
row_total(cells, labels) == SumSkipNa(cells, labels, Len(labels))

\* generate_excel: the spreadsheet it returns, or the exception it raises.
\* A result that is no mapping (an exception object, a list) leaves the frame
\* without a 'Candidate Name' column, or breaks its construction: whatever
\* the labels, the build raises.
generate_excel(results, reply) ==
    IF \E i \in DOMAIN results : ~IsRecord(results[i])
    THEN Raise("Exception", 0, "results are not all mappings")
    ELSE LET columns == DataFrame_columns(results)
             colmap == models_shorten_requirements(reply)
         IN  IF colmap.kind # "return"
             THEN colmap
             ELSE IF colmap.value.t # "dict"
             THEN Raise("TypeError", 0, "columns mapper is not a mapping")
             ELSE LET labels == rename(columns, colmap.value)
                  IN  IF CandidateName \notin Range(labels)
                      THEN Raise("KeyError", 0, "Candidate Name")
                      ELSE Return([t |-> "xlsx",
                                   labels |-> Append(labels, TotalScore),
                                   rows |-> [i \in DOMAIN results |->
                                      LET cells == [j \in DOMAIN columns |->
                                                      DataFrame_cell(results[i].value, columns[j])]
                                      IN  [cells |-> cells, total |-> row_total(cells, labels)]]])

(***************************************************************************)
(* api/routes.py                                                           *)
(***************************************************************************)
\* extract_criteria from the return of file.read() up to the backend call.
extract_criteria_extract(file, content) ==
    LET p == DocProcessor_process(file, content)
    IN  IF p.outcome.kind # "return"
        THEN [pc |-> "done", text |-> NoText, parsed |-> p.parsed, outcome |-> p.outcome]
        ELSE IF ErrorIn(p.result)
        THEN [pc |-> "done", text |-> p.result, parsed |-> p.parsed,
              outcome |-> IF p.result.kind = "str"
                          THEN Raise("TypeError", 0, "string indices must be integers")
                          ELSE HTTPException(p.result.status_code, p.result.error)]
        ELSE [pc |-> "scoring", text |-> p.result, parsed |-> p.parsed, outcome |-> NoOutcome]

\* extract_criteria from the backend call on: CriteriaResponse or HTTPException.
extract_criteria_respond(backend) ==
    LET result == models_extract_criteria(backend)
    IN  IF ErrorIn(result)
        THEN HTTPException(result.status_code, result.error)
        ELSE Return(List(result.payload))

\* rank_resumes, the loop over the gathered results.
final_results_of(results) == SelectSeq(results, LAMBDA res : res.kind # "HTTPException")

RECURSIVE errors_of(_)
errors_of(results) ==
    IF results = <<>> THEN <<>>
    ELSE (IF Head(results).kind = "HTTPException" THEN <<Head(results).detail>> ELSE <<>>)
         \o errors_of(Tail(results))

(***************************************************************************)
(* One request.  The handler and the coroutines it awaits share the event  *)
(* loop: a coroutine runs until it awaits the file, and the backend call,  *)
(* which is not awaited, holds the loop until it returns.                  *)
(***************************************************************************)
VARIABLES
    endpoint,         \* "extract-criteria" or "rank-resumes"
    nresumes,         \* len(resumes); 1 for extract-criteria
    upload,           \* the file of each coroutine, once it has started
    pc,               \* where each coroutine stands
    text,             \* what dpd.process() returned to it
    parsed,           \* whether the parsing library was called for it
    reply,            \* what the backend answered to it
    outcome,          \* what it returned or raised
    hpc,              \* "awaiting" the coroutines, or "responded"
    final_results,    \* routes.rank_resumes: final_results
    errors,           \* routes.rank_resumes: errors
    builds,           \* calls of generate_excel
    shortener_reply,  \* what the backend answered to shorten_requirements
    response          \* the HTTP response

vars == <<endpoint, nresumes, upload, pc, text, parsed, reply, outcome, hpc,
          final_results, errors, builds, shortener_reply, response>>

Tasks == 1..nresumes

NoResponse == [status_code |-> 0, detail |-> "", body |-> List(<<>>)]

Init ==
    /\ endpoint \in {"extract-criteria", "rank-resumes"}
    /\ nresumes \in IF endpoint = "rank-resumes" THEN (1..MaxN) \cup {MaxResumes + 1} ELSE {1}
    /\ upload = [i \in Tasks |-> NoUpload]
    /\ pc = [i \in Tasks |-> "created"]
    /\ text = [i \in Tasks |-> NoText]
    /\ parsed = [i \in Tasks |-> FALSE]
    /\ reply = [i \in Tasks |-> NoReply]
    /\ outcome = [i \in Tasks |-> NoOutcome]
    /\ hpc = "awaiting"
    /\ final_results = <<>>
    /\ errors = <<>>
    /\ builds = 0
    /\ shortener_reply = NoReply
    /\ response = NoResponse

\* The loop is free for a coroutine to run: no backend call holds it.
LoopFree == \A j \in Tasks : pc[j] # "scoring"

\* The files a request of this size may carry.
FilesOf(n) == IF n > MaxN THEN {PlainUpload} ELSE UploadFiles

SpooledOf(n) == IF n > MaxN THEN {FALSE} ELSE BOOLEAN

ContentsOf(n) == IF n > MaxN THEN {NoContent} ELSE Contents

\* What the framework answers when the handler raises.
HandlerRaised(exc) ==
    IF exc.kind = "HTTPException"
    THEN [status_code |-> exc.status_code, detail |-> exc.detail, body |-> List(<<>>)]
    ELSE [status_code |-> 500, detail |-> "Internal Server Error", body |-> List(<<>>)]

Respond200(body) == [status_code |-> 200, detail |-> "", body |-> body]

\* The coroutine from the return of file.read() on: it ends, or it enters its
\* backend call.  In extract_criteria the coroutine is the handler, and what
\* it raises is the response.
AfterRead(i, file) ==
    \E content \in ContentsOf(nresumes) :
        LET step == IF endpoint = "rank-resumes"
                    THEN process_resume_extract(file, content)
                    ELSE extract_criteria_extract(file, content)
            ends == endpoint = "extract-criteria" /\ step.pc = "done"
        IN  /\ pc' = [pc EXCEPT ![i] = step.pc]
            /\ text' = [text EXCEPT ![i] = step.text]
            /\ parsed' = [parsed EXCEPT ![i] = step.parsed]
            /\ outcome' = [outcome EXCEPT ![i] = step.outcome]
            /\ hpc' = IF ends THEN "responded" ELSE hpc
            /\ response' = IF ends THEN HandlerRaised(step.outcome) ELSE response

\* asyncio.gather starts the coroutines in order; each runs to its
\* await file.read(), and on when the file is in memory.
Start(i) ==
    /\ hpc = "awaiting"
    /\ pc[i] = "created"
    /\ \A j \in 1..(i - 1) : pc[j] # "created"
    /\ LoopFree
    /\ \E file \in FilesOf(nresumes), spooled \in SpooledOf(nresumes) :
          /\ upload' = [upload EXCEPT ![i] = file]
          /\ IF spooled
             THEN /\ pc' = [pc EXCEPT ![i] = "reading"]
                  /\ UNCHANGED <<text, parsed, outcome, hpc, response>>
             ELSE AfterRead(i, file)
    /\ UNCHANGED <<endpoint, nresumes, reply, final_results, errors, builds, shortener_reply>>

ReadReturns(i) ==
    /\ pc[i] = "reading"
    /\ LoopFree
    /\ AfterRead(i, upload[i])
    /\ UNCHANGED <<endpoint, nresumes, upload, reply, final_results, errors, builds,
                   shortener_reply>>

\* helpers.process_resume, from the return of AI().rank_resumes to its end.
ScoringReturns(i) ==
    /\ endpoint = "rank-resumes"
    /\ pc[i] = "scoring"
    /\ \E r \in ScorerReplies :
          /\ reply' = [reply EXCEPT ![i] = r]
          /\ outcome' = [outcome EXCEPT ![i] = process_resume_score(r)]
    /\ pc' = [pc EXCEPT ![i] = "done"]
    /\ UNCHANGED <<endpoint, nresumes, upload, text, parsed, hpc, final_results, errors,
                   builds, shortener_reply, response>>

\* routes.extract_criteria, from the return of AI().extract_criteria to the response.
CriteriaReturns ==
    /\ endpoint = "extract-criteria"
    /\ pc[1] = "scoring"
    /\ \E r \in CriteriaReplies :
          LET end == extract_criteria_respond(r)
          IN  /\ reply' = [reply EXCEPT ![1] = r]
              /\ outcome' = [outcome EXCEPT ![1] = end]
              /\ response' = IF end.kind = "return" THEN Respond200(end.value) ELSE HandlerRaised(end)
    /\ pc' = [pc EXCEPT ![1] = "done"]
    /\ hpc' = "responded"
    /\ UNCHANGED <<endpoint, nresumes, upload, text, parsed, final_results, errors, builds,
                   shortener_reply>>

gather_first_exception ==
    \/ \A i \in Tasks : pc[i] = "done"
    \/ \E i \in Tasks : pc[i] = "done" /\ outcome[i].kind # "return"

gather_first_completed == \E i \in Tasks : pc[i] = "done"

gather_all_but_first == \A i \in Tasks \ {1} : pc[i] = "done"

\* await asyncio.gather(*tasks, return_exceptions=True) returns: every
\* coroutine has returned or raised.
gather_done == \A i \in Tasks : pc[i] = "done"

\* routes.rank_resumes, from the return of gather to the response.
GatherReturns ==
    /\ endpoint = "rank-resumes"
    /\ hpc = "awaiting"
    /\ gather_done
    /\ \E r \in ShortenerReplies :
          LET results == [i \in Tasks |-> outcome[i]]
              excel == generate_excel(final_results_of(results), r)
          IN  /\ final_results' = final_results_of(results)
              /\ errors' = errors_of(results)
              /\ shortener_reply' = IF \A k \in Tasks : outcome[k].kind = "HTTPException" \/ IsRecord(outcome[k])
                                    THEN r ELSE NoReply
              /\ response' = IF excel.kind = "return"
                             THEN Respond200(excel.value)
                             ELSE HandlerRaised(excel)
    /\ builds' = builds + 1
    /\ hpc' = "responded"
    /\ UNCHANGED <<endpoint, nresumes, upload, pc, text, parsed, reply, outcome>>

Next ==
    \/ \E i \in Tasks : Start(i)
    \/ \E i \in Tasks : ReadReturns(i)
    \/ \E i \in Tasks : ScoringReturns(i)
    \/ CriteriaReturns
    \/ GatherReturns

Spec == Init /\ [][Next]_vars

(***************************************************************************)
(* The properties.                                                         *)
(***************************************************************************)
Rank == endpoint = "rank-resumes"

Extract == endpoint = "extract-criteria"

Responded == hpc = "responded"

\* The pipeline of resume i ended with a ScoreRecord, or with anything else.
Succeeded(i) == pc[i] = "done" /\ IsRecord(outcome[i])

Faulted(i) == pc[i] = "done" /\ ~IsRecord(outcome[i])

K == Cardinality({i \in Tasks : Succeeded(i)})

ReportMade == Rank /\ Responded /\ response.status_code = 200

\* C1: in a batch with K >= 1 successes the list handed to the report builder
\* holds exactly the K score records, and the report has K rows.
C1_ReportHasOneRowPerSuccess ==
    (Rank /\ Responded /\ K >= 1) =>
        /\ final_results = SelectSeq([i \in Tasks |-> outcome[i]], IsRecord)
        /\ ReportMade => Len(response.body.rows) = K

\* C2: a batch with no success is answered 400 "No resumes processed
\* successfully" and the report builder is not run.
C2_NoSuccessIs400 ==
    (Rank /\ Responded /\ K = 0) =>
        /\ response.status_code = 400
        /\ response.detail = "No resumes processed successfully"
        /\ builds = 0

\* C3: every outcome is in exactly one of the two sets, the success set holds
\* score records only, and a pipeline that ended with a fault is in the failure set.
C3_FaultsLandInFailureSet ==
    (Rank /\ Responded) =>
        /\ Len(final_results) + Len(errors) = nresumes
        /\ \A r \in DOMAIN final_results : IsRecord(final_results[r])
        /\ Len(errors) = Cardinality({i \in Tasks : Faulted(i)})

PipelineStep == \E i \in Tasks : Start(i) \/ ReadReturns(i) \/ ScoringReturns(i)

\* C4: while any pipeline of a batch has not ended, whatever its siblings
\* ended with, the batch is still open (no response, handler awaiting) and a
\* pipeline can run; a pipeline that ended has its own outcome.
C4_PipelinesRunIndependently ==
    Rank =>
        /\ \A j \in Tasks : pc[j] # "done" =>
              hpc = "awaiting" /\ response = NoResponse /\ ENABLED PipelineStep
        /\ \A j \in Tasks : pc[j] = "done" <=> outcome[j].kind # "none"

\* A sibling has raised (a fault that is no HTTPException) and another
\* pipeline, started after it, is in its backend call.
C4_Witness ==
    /\ Rank /\ nresumes = 2
    /\ pc[1] = "done" /\ outcome[1].kind = "ValueError"
    /\ pc[2] = "scoring"

RECURSIVE ItemSum(_, _)
ItemSum(items, excluded) ==
    IF items = <<>> THEN 0
    ELSE (IF Head(items)[1] \notin excluded /\ Head(items)[2].t = "num"
          THEN Head(items)[2].n ELSE 0) + ItemSum(Tail(items), excluded)

Filled(cells) == Cardinality({j \in DOMAIN cells : cells[j] # NaN})

\* The keys of a record whose column is labelled "Candidate Name" after the rename.
NameLabelled(record) ==
    LET colmap == models_shorten_requirements(shortener_reply).value
    IN  {k \in Keys(record) :
           (IF k \in Keys(colmap) THEN Get(colmap, k).s ELSE k) = CandidateName}

\* C5 as stated: every row's Total Score is the sum of all entries of its
\* record but "Candidate Name", and the row has a value only where the
\* record has one.
C5_TotalIsSumOfRecord ==
    ReportMade =>
        \A r \in DOMAIN response.body.rows :
            /\ response.body.rows[r].total
                 = ItemSum(final_results[r].value.items, {CandidateName})
            /\ Filled(response.body.rows[r].cells) = Len(final_results[r].value.items)

\* C5 as amended: every row's Total Score is the sum of the numeric entries
\* of its record whose column is not labelled "Candidate Name" after the
\* rename, and the row has a value only where the record has one.
C5_TotalIsSumOfUnnamedColumns ==
    ReportMade =>
        \A r \in DOMAIN response.body.rows :
            /\ response.body.rows[r].total
                 = ItemSum(final_results[r].value.items, NameLabelled(final_results[r].value))
            /\ Filled(response.body.rows[r].cells) = Len(final_results[r].value.items)

\* A report of two rows, one of a record that omits a requirement.
C5_Witness ==
    /\ ReportMade
    /\ Len(response.body.rows) = 2
    /\ \E r \in DOMAIN response.body.rows :
          /\ NaN \in Range(response.body.rows[r].cells)
          /\ response.body.rows[r].total = 4

\* C6: a file above 5 MB is never parsed, the extractor returns a mapping
\* with status 400 for it, and the caller sees a 400 (extract-criteria) or
\* an entry of the failure set (rank-resumes).
C6_OversizeIsFailure400 ==
    \A i \in Tasks : (pc[i] = "done" /\ upload[i].size > SizeLimit) =>
        /\ ~parsed[i]
        /\ text[i].kind = "dict" /\ text[i].status_code = 400
        /\ Extract => response.status_code = 400
        /\ (Rank /\ Responded) => outcome[i] \notin Range(final_results)

\* C7 as stated: a reply that carries the sentinel ends the request with
\* 400 "Not a valid Job Description" and no criteria.
C7_CarriedSentinelIs400 ==
    (Extract /\ pc[1] = "done" /\ reply[1].ok /\ "INVALID_INPUT" \in Range(reply[1].text)) =>
        /\ response = HandlerRaised(HTTPException(400, "Not a valid Job Description"))
        /\ outcome[1].kind # "return"

\* The reply is the sentinel and white space around it, nothing else.
IsSentinel(t) ==
    /\ Range(t) \subseteq Whitespace \cup {"INVALID_INPUT"}
    /\ Cardinality({i \in DOMAIN t : t[i] = "INVALID_INPUT"}) = 1

\* C7 as amended: a reply that is the sentinel, white space around it
\* aside, ends the request with 400 "Not a valid Job Description" and no criteria.
C7_SentinelIs400 ==
    (Extract /\ pc[1] = "done" /\ reply[1].ok /\ IsSentinel(reply[1].text)) =>
        /\ response = HandlerRaised(HTTPException(400, "Not a valid Job Description"))
        /\ outcome[1].kind # "return"

C7_Witness ==
    /\ Extract /\ pc[1] = "done"
    /\ reply[1] = Reply(<<"NL", "INVALID_INPUT", "SP">>)
    /\ response.status_code = 400

\* C8: a scoring reply that is neither the sentinel nor a JSON mapping ends
\* the pipeline with HTTPException(500, "Invalid response from scoring
\* backend"), which the batch records among its failures.
C8_UnparseableIsFailure500 ==
    \A i \in Tasks :
        (/\ Rank /\ pc[i] = "done" /\ reply[i].ok
         /\ "NOT_VALID" \notin Range(reply[i].text)
         /\ ~IsRecord(json_loads(Unfence(reply[i].text)))) =>
            /\ outcome[i] = HTTPException(500, "Invalid response from scoring backend")
            /\ Responded => outcome[i] \notin Range(final_results)

\* C9: a request of more than 50 files is answered 400 and none of its
\* pipelines is started.
C9_OverCapRejected ==
    (Rank /\ nresumes > MaxResumes) =>
        /\ \A i \in Tasks : pc[i] = "created"
        /\ response \in {NoResponse, HandlerRaised(HTTPException(400, "Maximum of 50 resumes allowed per request"))}

\* C10: outcomes are merged, the report is built and the response is made
\* only when every pipeline has ended; the report builder runs at most once.
C10_MergeAfterAllPipelines ==
    Rank =>
        /\ builds <= 1
        /\ (Responded \/ builds > 0 \/ final_results # <<>> \/ errors # <<>>
               \/ response # NoResponse \/ shortener_reply # NoReply)
             => \A i \in Tasks : pc[i] = "done"

\* A batch of two, one success and one failure, merged and answered.
C10_Witness ==
    /\ Rank /\ Responded /\ nresumes = 2
    /\ builds = 1
    /\ Len(final_results) = 1 /\ Len(errors) = 1

\* The scoring backend has been called for resume i.
Scored(i) == pc[i] = "scoring" \/ reply[i] # NoReply

\* C11: the scoring backend is called for a resume only once its extractor
\* call has returned a str; when the extractor returns a failure mapping, or
\* raises, the backend is never called, and the pipeline ends with the
\* mapping's status code and message.
C11_ScoreOnlyAfterText ==
    Rank =>
        \A i \in Tasks :
            /\ Scored(i) => text[i].kind = "str"
            /\ (pc[i] # "created" /\ pc[i] # "reading" /\ text[i].kind # "str") =>
                  pc[i] = "done" /\ ~Scored(i)
            /\ text[i].kind = "dict" =>
                  outcome[i] = HTTPException(text[i].status_code, text[i].error)

\* One resume ended on the extractor's 422 without a backend call, the
\* other was scored on its extracted text.
C11_Witness ==
    /\ Rank /\ nresumes = 2
    /\ pc[1] = "done" /\ text[1].kind = "dict" /\ outcome[1].status_code = 422
    /\ reply[1] = NoReply
    /\ pc[2] = "done" /\ text[2].kind = "str" /\ reply[2].ok

\* C13: whatever the extracted text says, a str returned by the extractor
\* is handled as text: the downstream backend call (criteria extraction or
\* resume scoring) is made with it, and the failure branch is not taken.
C13_TextIsNeverAFailure ==
    \A i \in Tasks :
        text[i].kind = "str" =>
            /\ Scored(i)
            /\ outcome[i].kind \notin {"TypeError", "HTTPException"}
                  \/ reply[i] # NoReply

\* The event loop runs what is ready: a created coroutine is started and
\* the handler is resumed when the gather is done.  Whether a file read or
\* a backend call ever returns is up to the disk and the backend.
SpecFair ==
    /\ Spec
    /\ WF_vars(\E i \in Tasks : Start(i))
    /\ WF_vars(GatherReturns)

\* A backend call is in flight; a file read is in flight.
InCall == \E i \in Tasks : pc[i] = "scoring"

Reading == \E i \in Tasks : pc[i] = "reading"

AllDone == \A i \in Tasks : pc[i] = "done"

====
